---- MODULE Spec2Model ----
(***************************************************************************)
(* A model of the tieba crawler: fetch_data.py (listing walk, concurrent   *)
(* detail fetches behind one IOLoop, fusion of post fragments, persistence *)
(* through the class-level db handle).                                     *)
(* database_sqlite.py (the sqlite Connection and its idle-time reconnect)  *)
(* is modelled on its own: fetch_data.py imports tornado.database instead. *)
(*                                                                         *)
(* Documents are modelled by what the CSS selectors of the code see in     *)
(* them, URLs as sequences of path segments, text as TLA+ strings.         *)
(***************************************************************************)
EXTENDS Integers, Sequences, FiniteSets, TLC

VARIABLES
    chainLen,      \* environment: number of listing pages the site links together
    pc,            \* position of main()
    page_url,      \* argument of the next fetch_summary_page call
    next_link,     \* main(): next_link
    detail_items,  \* main(): detail_items
    fetched,       \* history: listing fetches done, with the next link each gave
    requests,      \* every AsyncHTTPClient.fetch issued, with its callback and outcome
    stop,          \* IOLoop.stop() has been called in the running loop
    tables,        \* database: number of page_items tables
    rows,          \* database: rows of page_items, in insertion order
    raised,        \* the last call let an exception reach its caller
    html,          \* the document last handed to parse_summary_page, or to a parser called on its own
    ret,           \* what that parser returned
    summary_response, \* <<the response to the last listing fetch>>, <<>> before the first
    conn,          \* a database_sqlite.Connection: _db, _last_use_time, max_idle_time
    now,           \* time.time()
    statements     \* history: the statements run on a connection of conn, in order

vars == <<chainLen, pc, page_url, next_link, detail_items, fetched, requests,
          stop, tables, rows, raised, html, ret, summary_response, conn, now, statements>>

connVars == <<conn, now, statements>>

None == "None"

\* None, where a url or an href is expected
NoUrl == <<>>

(***************************************************************************)
(* Bounds of the model.                                                    *)
(***************************************************************************)
MaxChain == 2      \* listing pages in the chain
MaxRefs == 3       \* detail fetches issued in one run
MaxFrags == 4      \* post fragments of a detail page parsed on its own
MaxEntries == 3    \* entries of a listing page parsed on its own
MaxRows == 3       \* rows inserted between schema calls
MaxTime == 3       \* last value of the clock
MaxIdle == 2       \* largest max_idle_time a Connection is made with
MaxStatements == 2 \* statements run on one Connection

(***************************************************************************)
(* URLs.                                                                   *)
(***************************************************************************)
Base == "http://tieba.baidu.com"

Digits == {"1", "2"}

IntOf(s) == IF s = "1" THEN 1 ELSE 2

\* base_url % href
base_url(href) == <<Base>> \o href

\* regex_num.match(url): ".+/p/(\d+)" matched from the start of the url; the
\* greedy ".+" makes group(1) the digits after the last "/p/".
regex_num(url) == {i \in 2..(Len(url) - 1) : url[i] = "p" /\ url[i + 1] \in Digits}

PageNumRaises(url) == regex_num(url) = {}

_page_num(url) ==
    LET i == CHOOSE j \in regex_num(url) : \A k \in regex_num(url) : k <= j
    IN  IntOf(url[i + 1])

\* PageItem.__init__ (reply_date, a DOM node that is never read again, is left out)
PageItem(url) == [url |-> url, page_num |-> _page_num(url)]

(***************************************************************************)
(* Listing documents and parse_summary_page.                               *)
(***************************************************************************)
DetailHrefs == {<<"p", "1">>, <<"p", "2">>, <<"f", "good">>}

\* an li.j_thread_list: its a.j_th_tit (NoUrl: no such node) and whether it has
\* a span.j_reply_data
Entries == [link : DetailHrefs \cup {NoUrl}, date : BOOLEAN]

SeqsUpTo(S, n) == UNION {[1..k -> S] : k \in 0..n}

ListingDoc(entries, next) == [kind |-> "listing", entries |-> entries, next |-> next]

EntryRaises(li) ==
    \/ li.link = NoUrl                         \* css("a.j_th_tit")(li)[0]
    \/ ~li.date                                \* css("span.j_reply_data")(li)[0]
    \/ PageNumRaises(base_url(li.link))        \* PageItem(href, reply_date)

\* the parser with link_items.insert(0, ...) where the code has append
parse_summary_page_Reversed(doc) ==
    IF \E i \in 1..Len(doc.entries) : EntryRaises(doc.entries[i])
    THEN [raised |-> TRUE, next_link |-> NoUrl, link_items |-> <<>>]
    ELSE [raised |-> FALSE,
          next_link |-> IF doc.next # NoUrl THEN base_url(doc.next) ELSE NoUrl,
          link_items |-> [i \in 1..Len(doc.entries) |->
                             PageItem(base_url(doc.entries[Len(doc.entries) + 1 - i].link))]]

parse_summary_page(doc) ==
    IF \E i \in 1..Len(doc.entries) : EntryRaises(doc.entries[i])
    THEN [raised |-> TRUE, next_link |-> NoUrl, link_items |-> <<>>]
    ELSE [raised |-> FALSE,
          next_link |-> IF doc.next # NoUrl THEN base_url(doc.next) ELSE NoUrl,
          link_items |-> [i \in 1..Len(doc.entries) |->
                             PageItem(base_url(doc.entries[i].link))]]

(***************************************************************************)
(* Detail documents and PageItem.parse_detail_page.                        *)
(***************************************************************************)
\* a div.l_post: its data-field payload ("malformed": json.loads fails;
\* "badshape": it loads but has no "content" or "author" key) and the text of
\* its d_post_content
Frag(author, date, text) ==
    [json |-> "ok", id |-> author.id, name |-> author.name, date |-> date, text |-> text]

\* the "author" objects of the payloads: with an id, with a name only, with neither
Authors == {[id |-> "A", name |-> "A"], [id |-> "B", name |-> None],
            [id |-> None, name |-> "A"], [id |-> None, name |-> None]}

\* posts of two instants, each with its own text
OkFrags == {Frag(a, "d1", "x") : a \in Authors} \cup {Frag(a, "d2", "y") : a \in Authors}

Malformed == [json |-> "malformed", id |-> None, name |-> None, date |-> None, text |-> ""]

BadShape == [json |-> "badshape", id |-> None, name |-> None, date |-> None, text |-> ""]

DetailDoc(core, frags, title) ==
    [kind |-> "detail", core |-> core, frags |-> frags, title |-> title]

\* the detail documents with at most n fragments; without a div.core nothing
\* else of the document is looked at
DetailDocs(n) ==
    {DetailDoc(TRUE, fs, t) : fs \in SeqsUpTo(OkFrags \cup {Malformed, BadShape}, n),
                              t \in {"t", None}}
    \cup {DetailDoc(FALSE, <<>>, None)}

\* _author.get("id") or _author.get("name")
user_id(div) == IF div.id # None THEN div.id ELSE div.name

RECURSIVE Join(_)
\* "\n\n".join(contents)
Join(contents) ==
    IF Len(contents) = 0 THEN ""
    ELSE IF Len(contents) = 1 THEN contents[1]
    ELSE contents[1] \o "\n\n" \o Join(Tail(contents))

RECURSIVE FuseLoop_NoBreak(_, _, _, _, _)
\* the loop with "continue" where the code has "break"
FuseLoop_NoBreak(post_contents, i, main_author, contents, created_at) ==
    IF i > Len(post_contents)
    THEN [raised |-> FALSE, contents |-> contents, created_at |-> created_at]
    ELSE LET div == post_contents[i] IN
         IF div.json = "malformed"
         THEN FuseLoop_NoBreak(post_contents, i + 1, main_author, contents, created_at)
         ELSE IF div.json = "badshape"
         THEN [raised |-> TRUE, contents |-> contents, created_at |-> created_at]
         ELSE LET uid == user_id(div)
                  author == IF main_author = None THEN uid ELSE main_author
              IN  IF author # uid
                  THEN FuseLoop_NoBreak(post_contents, i + 1, author, contents, div.date)
                  ELSE FuseLoop_NoBreak(post_contents, i + 1, author,
                                        Append(contents, div.text), div.date)

RECURSIVE FuseLoop_MalformedBreaks(_, _, _, _, _)
\* the loop with "break" in the except of json.loads where the code has "continue"
FuseLoop_MalformedBreaks(post_contents, i, main_author, contents, created_at) ==
    IF i > Len(post_contents)
    THEN [raised |-> FALSE, contents |-> contents, created_at |-> created_at]
    ELSE LET div == post_contents[i] IN
         IF div.json = "malformed"
         THEN [raised |-> FALSE, contents |-> contents, created_at |-> created_at]
         ELSE IF div.json = "badshape"
         THEN [raised |-> TRUE, contents |-> contents, created_at |-> created_at]
         ELSE LET uid == user_id(div)
                  author == IF main_author = None THEN uid ELSE main_author
              IN  IF author # uid
                  THEN [raised |-> FALSE, contents |-> contents, created_at |-> div.date]
                  ELSE FuseLoop_MalformedBreaks(post_contents, i + 1, author,
                                                Append(contents, div.text), div.date)

RECURSIVE FuseLoop(_, _, _, _, _)
\* the for loop over post_contents, from fragment i on
FuseLoop(post_contents, i, main_author, contents, created_at) ==
    IF i > Len(post_contents)
    THEN [raised |-> FALSE, contents |-> contents, created_at |-> created_at]
    ELSE LET div == post_contents[i] IN
         IF div.json = "malformed"
         THEN FuseLoop(post_contents, i + 1, main_author, contents, created_at)
         ELSE IF div.json = "badshape"
         THEN [raised |-> TRUE, contents |-> contents, created_at |-> created_at]
         ELSE LET uid == user_id(div)
                  author == IF main_author = None THEN uid ELSE main_author
              IN  IF author # uid
                  THEN [raised |-> FALSE, contents |-> contents, created_at |-> div.date]
                  ELSE FuseLoop(post_contents, i + 1, author,
                                Append(contents, div.text), div.date)

NoItem == [title |-> None, content |-> None, created_at |-> None]

\* parse_detail_page storing the page under no title when h1.core_title_txt
\* is not there
parse_detail_page_TitleOptional(doc) ==
    IF ~doc.core THEN [kind |-> "return", item |-> NoItem]
    ELSE LET loop == FuseLoop(doc.frags, 1, None, <<>>, None) IN
         IF loop.raised
         THEN [kind |-> "raise", item |-> NoItem]
         ELSE [kind |-> "save",
               item |-> [title |-> doc.title, content |-> Join(loop.contents),
                         created_at |-> loop.created_at]]

\* parse_detail_page returning without a record when no post was fused
parse_detail_page_SkipsEmpty(doc) ==
    IF ~doc.core THEN [kind |-> "return", item |-> NoItem]
    ELSE LET loop == FuseLoop(doc.frags, 1, None, <<>>, None) IN
         IF loop.raised \/ doc.title = None
         THEN [kind |-> "raise", item |-> NoItem]
         ELSE IF loop.contents = <<>>
         THEN [kind |-> "return", item |-> NoItem]
         ELSE [kind |-> "save",
               item |-> [title |-> doc.title, content |-> Join(loop.contents),
                         created_at |-> loop.created_at]]

\* what parse_detail_page does up to its call of save_to_sqlite:
\* "return" (no div.core), "raise", or "save" with the attributes it has set
parse_detail_page(doc) ==
    IF ~doc.core THEN [kind |-> "return", item |-> NoItem]
    ELSE LET loop == FuseLoop(doc.frags, 1, None, <<>>, None) IN
         IF loop.raised \/ doc.title = None
         THEN [kind |-> "raise", item |-> NoItem]
         ELSE [kind |-> "save",
               item |-> [title |-> doc.title, content |-> Join(loop.contents),
                         created_at |-> loop.created_at]]

(***************************************************************************)
(* The database behind PageItem.db.                                        *)
(***************************************************************************)
\* db.execute(migrate_str): CREATE TABLE fails when the server cannot be
\* reached or the table exists
ExecuteCreate(tbls, up) ==
    IF up /\ tbls = 0 THEN [raised |-> FALSE, tables |-> tbls + 1]
    ELSE [raised |-> TRUE, tables |-> tbls]

\* db.execute("insert into page_items ...")
ExecuteInsert(tbls, rs, row, up) ==
    IF up /\ tbls > 0 THEN [raised |-> FALSE, rows |-> Append(rs, row)]
    ELSE [raised |-> TRUE, rows |-> rs]

\* init_sqlite without its try/except
init_sqlite_NoExcept(tbls, up) == ExecuteCreate(tbls, up)

\* PageItem.init_sqlite: every exception of the CREATE TABLE is swallowed
init_sqlite(tbls, up) == [raised |-> FALSE, tables |-> ExecuteCreate(tbls, up).tables]

\* PageItem.save_to_sqlite
save_to_sqlite(tbls, rs, page_num, item, up) ==
    ExecuteInsert(tbls, rs,
                  [page_num |-> page_num, title |-> item.title,
                   content |-> item.content, created_at |-> item.created_at], up)

(***************************************************************************)
(* handle_request.__call__                                                 *)
(***************************************************************************)
EmptyHtml == [kind |-> "empty"]

\* a response: error set or not, the charset of its Content-Type (None: the
\* header names none), whether the body decodes strictly, and the document
Response(error, charset, strict, doc) ==
    [error |-> error, charset |-> charset, strict |-> strict, html |-> doc]

\* the responses with a document of docs, and those whose body is never parsed
Responses(docs) ==
    {Response(TRUE, None, FALSE, EmptyHtml),
     Response(FALSE, None, TRUE, EmptyHtml),
     Response(FALSE, "utf-8", FALSE, EmptyHtml)}
    \cup {Response(FALSE, "utf-8", TRUE, d) : d \in docs}
    \cup {Response(FALSE, "gbk", FALSE, d) : d \in docs}

\* stop: IOLoop.stop() is called; raised: the callback raises; call: the parser
\* is called on response.html
handle_request(response, exit_flag) ==
    IF response.error THEN [stop |-> FALSE, raised |-> FALSE, call |-> FALSE]
    ELSE IF response.charset = None                 \* re.match(...) is None
    THEN [stop |-> FALSE, raised |-> TRUE, call |-> FALSE]
    ELSE IF ~response.strict /\ response.charset # "gbk"   \* html is left unbound
    THEN [stop |-> exit_flag, raised |-> TRUE, call |-> FALSE]
    ELSE [stop |-> exit_flag, raised |-> FALSE, call |-> response.html.kind # "empty"]

(***************************************************************************)
(* The site, as the crawler sees it.                                       *)
(***************************************************************************)
\* main_url, for the default keyword
MainUrl == <<Base, "f", "good?kw=java">>

NextHref(k) == <<"f", "good?pn=" \o ToString(k)>>

ListingUrl(k) == IF k = 1 THEN MainUrl ELSE base_url(NextHref(k))

PageIndex(url) == CHOOSE k \in 1..MaxChain : ListingUrl(k) = url

\* the listing entries the site serves in a crawl: every kind of broken entry,
\* and entries for one thread
CrawlEntries == {e \in Entries : e.link # <<"p", "2">>}

\* the listing documents the site may serve for url: any entries, and a next
\* link to the following page of the chain unless url is its last page
ListingDocs(url, room) ==
    LET k == PageIndex(url) IN
    {ListingDoc(es, IF k < chainLen THEN NextHref(k + 1) ELSE NoUrl) :
        es \in SeqsUpTo(CrawlEntries, room)}

\* the detail documents the site serves in a crawl
CrawlDetailDocs ==
    {DetailDoc(TRUE, <<Frag([id |-> "A", name |-> "A"], "d1", "x")>>, "t"),
     DetailDoc(TRUE, <<>>, None),
     DetailDoc(FALSE, <<>>, None),
     EmptyHtml}

(***************************************************************************)
(* database_sqlite.Connection. _db is <<>> for None, else <<c>> with c the  *)
(* sqlite3 connection: when it was opened and when a statement last ran on *)
(* it. sqlite3.connect may raise (connected = FALSE).                       *)
(***************************************************************************)
\* Connection.close()
close(c) == [c EXCEPT !._db = <<>>]

\* Connection.reconnect() at time t
reconnect(c, t, connected) ==
    IF connected
    THEN [conn |-> [c EXCEPT !._db = <<[opened |-> t, used |-> t]>>], raised |-> FALSE]
    ELSE [conn |-> close(c), raised |-> TRUE]

\* Connection(max_idle_time=max_idle_time) at time t
Connection(max_idle_time, t, connected) ==
    reconnect([max_idle_time |-> max_idle_time, _db |-> <<>>, _last_use_time |-> t],
              t, connected).conn

\* _ensure_connected() reconnecting only when _db is None
_ensure_connected_NoIdleCheck(c, t, connected) ==
    IF c._db = <<>>
    THEN LET r == reconnect(c, t, connected) IN
         IF r.raised THEN r
         ELSE [conn |-> [r.conn EXCEPT !._last_use_time = t], raised |-> FALSE]
    ELSE [conn |-> [c EXCEPT !._last_use_time = t], raised |-> FALSE]

\* Connection._ensure_connected() at time t
_ensure_connected(c, t, connected) ==
    IF c._db = <<>> \/ t - c._last_use_time > c.max_idle_time
    THEN LET r == reconnect(c, t, connected) IN
         IF r.raised THEN r
         ELSE [conn |-> [r.conn EXCEPT !._last_use_time = t], raised |-> FALSE]
    ELSE [conn |-> [c EXCEPT !._last_use_time = t], raised |-> FALSE]

\* Connection._cursor() at time t: a cursor of _db, once connected
_cursor(c, t, connected) == _ensure_connected(c, t, connected)

\* the statement a cursor of c._db runs at time t
Statement(c, t) ==
    [at |-> t, opened |-> c._db[1].opened, idle |-> t - c._db[1].used]

\* no Connection of database_sqlite is made
IdleConn ==
    /\ conn = <<>>
    /\ now = 0
    /\ statements = <<>>

(***************************************************************************)
(* main() and what it calls.                                               *)
(***************************************************************************)
Pending == {n \in 1..Len(requests) : requests[n].status = "pending"}

dbVars == <<tables, rows, raised>>

pureVars == <<html, ret>>

\* main(): PageItem.init_sqlite() and main_url
Main_InitSqlite ==
    /\ pc = "init_sqlite"
    /\ \E up \in BOOLEAN : tables' = init_sqlite(tables, up).tables
    /\ page_url' = MainUrl
    /\ pc' = "fetch_summary_page"
    /\ UNCHANGED <<chainLen, next_link, detail_items, fetched, requests, stop, rows,
                   raised, html, ret,
                   summary_response, connVars>>

\* main() taking a failing listing for one with nothing in it
FetchSummaryPage_Skips ==
    /\ pc = "fetch_summary_page"
    /\ \E response \in Responses(ListingDocs(page_url, MaxRefs - Len(requests)) \cup {EmptyHtml}) :
          LET h == handle_request(response, FALSE) IN
          /\ IF response.error THEN TRUE            \* sync_client.fetch raises
             ELSE IF h.raised THEN TRUE
             ELSE IF ~h.call THEN TRUE           \* None is unpacked
             ELSE parse_summary_page(response.html).raised
          /\ html' = IF ~response.error /\ ~h.raised /\ h.call THEN response.html
                     ELSE EmptyHtml
          /\ summary_response' = <<response>>
    /\ pc' = "print_next_link"
    /\ UNCHANGED <<chainLen, page_url, next_link, detail_items, fetched, requests, stop>>
    /\ UNCHANGED <<dbVars, ret, connVars>>

\* fetch_summary_page(page_url) raises: the run ends with a traceback
FetchSummaryPage_Raises ==
    /\ pc = "fetch_summary_page"
    /\ \E response \in Responses(ListingDocs(page_url, MaxRefs - Len(requests)) \cup {EmptyHtml}) :
          LET h == handle_request(response, FALSE) IN
          /\ IF response.error THEN TRUE            \* sync_client.fetch raises
             ELSE IF h.raised THEN TRUE
             ELSE IF ~h.call THEN TRUE           \* None is unpacked
             ELSE parse_summary_page(response.html).raised
          /\ html' = IF ~response.error /\ ~h.raised /\ h.call THEN response.html
                     ELSE EmptyHtml
          /\ summary_response' = <<response>>
    /\ pc' = "aborted"
    /\ UNCHANGED <<chainLen, page_url, next_link, detail_items, fetched, requests, stop>>
    /\ UNCHANGED <<dbVars, ret, connVars>>

\* next_link, detail_items = fetch_summary_page(page_url)
FetchSummaryPage ==
    /\ pc = "fetch_summary_page"
    /\ \E response \in Responses(ListingDocs(page_url, MaxRefs - Len(requests))) :
          LET h == handle_request(response, FALSE)
              r == parse_summary_page(response.html)
          IN  /\ ~response.error /\ ~h.raised /\ h.call /\ ~r.raised
              /\ next_link' = r.next_link
              /\ detail_items' = r.link_items
              /\ fetched' = Append(fetched, [url |-> page_url, next |-> r.next_link])
              /\ html' = response.html
              /\ summary_response' = <<response>>
    /\ pc' = "async_fetch"
    /\ UNCHANGED <<chainLen, page_url, requests, stop>>
    /\ UNCHANGED <<dbVars, ret, connVars>>

\* async_fetch without its early return: the loop is started on nothing
AsyncFetch_Empty_StartsLoop ==
    /\ pc = "async_fetch"
    /\ detail_items = <<>>
    /\ stop' = FALSE
    /\ pc' = "ioloop"
    /\ UNCHANGED <<chainLen, page_url, next_link, detail_items, fetched, requests>>
    /\ UNCHANGED <<dbVars, pureVars, summary_response, connVars>>

\* async_fetch(detail_items): nothing to fetch
AsyncFetch_Empty ==
    /\ pc = "async_fetch"
    /\ detail_items = <<>>
    /\ pc' = "print_next_link"
    /\ UNCHANGED <<chainLen, page_url, next_link, detail_items, fetched, requests, stop>>
    /\ UNCHANGED <<dbVars, pureVars, summary_response, connVars>>

\* the request with exit_flag set for the first item of the list
NewRequest_FlagsFirst(page_items, idx, batch, fetch_raises) ==
    [batch |-> batch, idx |-> idx, page_num |-> page_items[idx].page_num,
     exit_flag |-> (idx = 1),
     status |-> IF fetch_raises THEN "fetch_error" ELSE "pending"]

\* the request async_fetch issues for page_items[idx]; when async_client.fetch
\* raises ("fetch error") no callback is registered
NewRequest(page_items, idx, batch, fetch_raises) ==
    [batch |-> batch, idx |-> idx, page_num |-> page_items[idx].page_num,
     exit_flag |-> (Len(page_items) = idx),
     status |-> IF fetch_raises THEN "fetch_error" ELSE "pending"]

\* async_fetch(detail_items): one fetch per item, then IOLoop.instance().start()
AsyncFetch ==
    /\ pc = "async_fetch"
    /\ detail_items # <<>>
    /\ \E raising \in SUBSET (1..Len(detail_items)) :
          requests' = requests \o [idx \in 1..Len(detail_items) |->
                         NewRequest(detail_items, idx, Len(fetched), idx \in raising)]
    /\ stop' = FALSE
    /\ pc' = "ioloop"
    /\ UNCHANGED <<chainLen, page_url, next_link, detail_items, fetched>>
    /\ UNCHANGED <<dbVars, pureVars, summary_response, connVars>>

\* the callback with the insert put off to a flush after the batch
Callback_Deferred(n, response, up) ==
    LET h == handle_request(response, requests[n].exit_flag)
        p == parse_detail_page(response.html)
    IN  [stop |-> h.stop,
         status |-> IF response.error THEN "error"
                    ELSE IF h.raised THEN "raised"
                    ELSE IF ~h.call THEN "no_html"
                    ELSE IF p.kind = "return" THEN "no_core"
                    ELSE IF p.kind = "raise" THEN "raised"
                    ELSE "saved",
         rows |-> rows]

\* the outcome of the callback of request n on response, and the rows after it
Callback(n, response, up) ==
    LET h == handle_request(response, requests[n].exit_flag)
        p == parse_detail_page(response.html)
        s == save_to_sqlite(tables, rows, requests[n].page_num, p.item, up)
    IN  [stop |-> h.stop,
         status |-> IF response.error THEN "error"
                    ELSE IF h.raised THEN "raised"
                    ELSE IF ~h.call THEN "no_html"
                    ELSE IF p.kind = "return" THEN "no_core"
                    ELSE IF p.kind = "raise" THEN "raised"
                    ELSE IF s.raised THEN "raised"
                    ELSE "saved",
         rows |-> IF ~response.error /\ ~h.raised /\ h.call /\ p.kind = "save"
                  THEN s.rows ELSE rows]

\* the IOLoop giving up the rest of a batch once a callback of it has failed
HandleRequest_CancelsBatch ==
    /\ pc = "ioloop"
    /\ \E n \in Pending, response \in Responses(CrawlDetailDocs) :
       \E up \in IF Callback(n, response, TRUE).status = "saved" THEN BOOLEAN ELSE {TRUE} :
          LET c == Callback(n, response, up) IN
          /\ requests' = [m \in 1..Len(requests) |->
                IF m = n THEN [requests[m] EXCEPT !.status = c.status]
                ELSE IF /\ c.status # "saved"
                        /\ requests[m].batch = requests[n].batch
                        /\ requests[m].status = "pending"
                THEN [requests[m] EXCEPT !.status = "error"]
                ELSE requests[m]]
          /\ stop' = (stop \/ c.stop)
          /\ rows' = c.rows
    /\ UNCHANGED <<chainLen, pc, page_url, next_link, detail_items, fetched, tables,
                   raised, html, ret, summary_response, connVars>>

\* the running IOLoop calls the callback of one outstanding fetch
HandleRequest ==
    /\ pc = "ioloop"
    /\ \E n \in Pending, response \in Responses(CrawlDetailDocs) :
       \E up \in IF Callback(n, response, TRUE).status = "saved" THEN BOOLEAN ELSE {TRUE} :
          LET c == Callback(n, response, up) IN
          /\ requests' = [requests EXCEPT ![n].status = c.status]
          /\ stop' = (stop \/ c.stop)
          /\ rows' = c.rows
    /\ UNCHANGED <<chainLen, pc, page_url, next_link, detail_items, fetched, tables,
                   raised, html, ret,
                   summary_response, connVars>>

\* IOLoop.start() returns once stop() has been called: async_fetch returns
IOLoop_Return ==
    /\ pc = "ioloop"
    /\ stop
    /\ stop' = FALSE
    /\ pc' = "print_next_link"
    /\ UNCHANGED <<chainLen, page_url, next_link, detail_items, fetched, requests>>
    /\ UNCHANGED <<dbVars, pureVars, summary_response, connVars>>

\* main() fetching main_url again where the code fetches next_link
Main_Continue_Stale ==
    /\ pc = "print_next_link"
    /\ next_link # NoUrl
    /\ page_url' = MainUrl
    /\ pc' = "fetch_summary_page"
    /\ UNCHANGED <<chainLen, next_link, detail_items, fetched, requests, stop>>
    /\ UNCHANGED <<dbVars, pureVars, summary_response, connVars>>

\* main(): if next_link: fetch it
Main_Continue ==
    /\ pc = "print_next_link"
    /\ next_link # NoUrl
    /\ page_url' = next_link
    /\ pc' = "fetch_summary_page"
    /\ UNCHANGED <<chainLen, next_link, detail_items, fetched, requests, stop>>
    /\ UNCHANGED <<dbVars, pureVars, summary_response, connVars>>

\* main(): else: break
Main_Break ==
    /\ pc = "print_next_link"
    /\ next_link = NoUrl
    /\ pc' = "done"
    /\ UNCHANGED <<chainLen, page_url, next_link, detail_items, fetched, requests, stop>>
    /\ UNCHANGED <<dbVars, pureVars, summary_response, connVars>>

Init ==
    /\ chainLen \in 1..MaxChain
    /\ pc = "init_sqlite"
    /\ page_url = NoUrl
    /\ next_link = NoUrl
    /\ detail_items = <<>>
    /\ fetched = <<>>
    /\ requests = <<>>
    /\ stop = FALSE
    /\ tables \in {0, 1}
    /\ rows = <<>>
    /\ raised = FALSE
    /\ html = EmptyHtml
    /\ ret = None
    /\ summary_response = <<>>
    /\ IdleConn

Next ==
    \/ Main_InitSqlite
    \/ FetchSummaryPage
    \/ FetchSummaryPage_Raises
    \/ AsyncFetch_Empty
    \/ AsyncFetch
    \/ HandleRequest
    \/ IOLoop_Return
    \/ Main_Continue
    \/ Main_Break

Spec == Init /\ [][Next]_vars

(***************************************************************************)
(* The parsers and the schema call on their own.                           *)
(***************************************************************************)
IdleCrawl ==
    /\ chainLen = 1
    /\ page_url = NoUrl
    /\ next_link = NoUrl
    /\ detail_items = <<>>
    /\ fetched = <<>>
    /\ requests = <<>>
    /\ stop = FALSE
    /\ summary_response = <<>>

idleVars == <<chainLen, page_url, next_link, detail_items, fetched, requests, stop,
              summary_response>>

\* PageItem(url).parse_detail_page(html), for a page item of thread 1
ParseDetailPage ==
    /\ pc = "parse_detail_page"
    /\ LET p == parse_detail_page(html) IN
       \E up \in IF p.kind = "save" THEN BOOLEAN ELSE {TRUE} :
          LET s == save_to_sqlite(tables, rows, 1, p.item, up) IN
          /\ ret' = p.kind
          /\ rows' = IF p.kind = "save" THEN s.rows ELSE rows
          /\ raised' = (p.kind = "raise" \/ (p.kind = "save" /\ s.raised))
    /\ pc' = "returned"
    /\ UNCHANGED <<idleVars, tables, html, connVars>>

InitParse ==
    /\ IdleCrawl
    /\ IdleConn
    /\ pc = "parse_detail_page"
    /\ html \in DetailDocs(MaxFrags)
    /\ tables = 1
    /\ rows = <<>>
    /\ raised = FALSE
    /\ ret = None

NextParse == ParseDetailPage

SpecParse == InitParse /\ [][NextParse]_vars

\* the row of a page item stored earlier
PriorRow == [page_num |-> 2, title |-> "t", content |-> "y", created_at |-> "d2"]

\* parse_detail_page called when page_items already holds a row
InitParseAgain ==
    /\ IdleCrawl
    /\ IdleConn
    /\ pc = "parse_detail_page"
    /\ html \in DetailDocs(MaxFrags)
    /\ tables = 1
    /\ rows = <<PriorRow>>
    /\ raised = FALSE
    /\ ret = None

SpecParseAgain == InitParseAgain /\ [][NextParse]_vars

\* parse_summary_page(html)
ParseSummaryPage ==
    /\ pc = "parse_summary_page"
    /\ ret' = parse_summary_page(html)
    /\ raised' = parse_summary_page(html).raised
    /\ pc' = "returned"
    /\ UNCHANGED <<idleVars, tables, rows, html, connVars>>

InitListing ==
    /\ IdleCrawl
    /\ IdleConn
    /\ pc = "parse_summary_page"
    /\ html \in {ListingDoc(es, n) : es \in SeqsUpTo(Entries, MaxEntries),
                                     n \in {NoUrl, NextHref(2)}}
    /\ tables = 1
    /\ rows = <<>>
    /\ raised = FALSE
    /\ ret = None

NextListing == ParseSummaryPage

SpecListing == InitListing /\ [][NextListing]_vars

\* PageItem.init_sqlite()
InitSqlite ==
    /\ pc = "schema"
    /\ \E up \in BOOLEAN :
          /\ tables' = init_sqlite(tables, up).tables
          /\ raised' = init_sqlite(tables, up).raised
    /\ ret' = "init_sqlite"
    /\ UNCHANGED <<idleVars, pc, rows, html, connVars>>

SchemaItems == {[title |-> "t", content |-> c, created_at |-> "d1"] : c \in {"", "x"}}

\* page_item.save_to_sqlite()
SaveToSqlite ==
    /\ pc = "schema"
    /\ Len(rows) < MaxRows
    /\ \E item \in SchemaItems, page_num \in {1, 2}, up \in BOOLEAN :
          LET s == save_to_sqlite(tables, rows, page_num, item, up) IN
          /\ rows' = s.rows
          /\ raised' = s.raised
    /\ ret' = "save_to_sqlite"
    /\ UNCHANGED <<idleVars, pc, tables, html, connVars>>

InitSchema ==
    /\ IdleCrawl
    /\ IdleConn
    /\ pc = "schema"
    /\ tables \in {0, 1}
    /\ rows = <<>>
    /\ raised = FALSE
    /\ html = EmptyHtml
    /\ ret = None

NextSchema == InitSqlite \/ SaveToSqlite

SpecSchema == InitSchema /\ [][NextSchema]_vars

connFrame == <<idleVars, pc, tables, rows, html, ret>>

\* time passes
Tick ==
    /\ pc = "connection"
    /\ now < MaxTime
    /\ now' = now + 1
    /\ UNCHANGED <<conn, statements, raised>>
    /\ UNCHANGED connFrame

\* execute(), executemany(), query(), iter(): self._cursor(), then the
\* statement on that cursor
Execute ==
    /\ pc = "connection"
    /\ Len(statements) < MaxStatements
    /\ \E connected \in BOOLEAN :
          LET k == _cursor(conn, now, connected) IN
          /\ raised' = k.raised
          /\ conn' = IF k.raised THEN k.conn
                     ELSE [k.conn EXCEPT !._db[1].used = now]
          /\ statements' = IF k.raised THEN statements
                           ELSE Append(statements, Statement(k.conn, now))
    /\ UNCHANGED now
    /\ UNCHANGED connFrame

\* close()
Close ==
    /\ pc = "connection"
    /\ conn' = close(conn)
    /\ raised' = FALSE
    /\ UNCHANGED <<now, statements>>
    /\ UNCHANGED connFrame

\* reconnect()
Reconnect ==
    /\ pc = "connection"
    /\ \E connected \in BOOLEAN :
          /\ conn' = reconnect(conn, now, connected).conn
          /\ raised' = reconnect(conn, now, connected).raised
    /\ UNCHANGED <<now, statements>>
    /\ UNCHANGED connFrame

InitConn ==
    /\ IdleCrawl
    /\ pc = "connection"
    /\ tables = 0
    /\ rows = <<>>
    /\ raised = FALSE
    /\ html = EmptyHtml
    /\ ret = None
    /\ now = 0
    /\ statements = <<>>
    /\ \E max_idle_time \in 1..MaxIdle, connected \in BOOLEAN :
          conn = Connection(max_idle_time, 0, connected)

NextConn == Tick \/ Execute \/ Close \/ Reconnect

SpecConn == InitConn /\ [][NextConn]_vars

(***************************************************************************)
(* Properties of the crawl (Spec).                                         *)
(***************************************************************************)
Saved == {n \in 1..Len(requests) : requests[n].status = "saved"}

BatchOf(b) == {n \in 1..Len(requests) : requests[n].batch = b}

\* C1: batch-completion barrier. Whenever async_fetch has returned control to
\* main (which is printing next_link or about to fetch the next listing
\* page), no fetch it dispatched is still outstanding.
C1_Barrier ==
    pc \in {"print_next_link", "fetch_summary_page"} => Pending = {}

\* C2: end to end, all fetches succeed. When the run has terminated and no
\* fetch has ended otherwise than in a persisted record, there are as many
\* rows as page items over all the listing pages, and as many listing fetches
\* as the chain has pages.
C2_AllPersisted ==
    (/\ pc = "done"
     /\ \A n \in 1..Len(requests) : requests[n].status \in {"pending", "saved"})
    => (Len(rows) = Len(requests) /\ Len(fetched) = chainLen)

\* C3: end to end, one transport error. Once the two fetches of a batch of two
\* have ended, one in a transport error and the other in a persisted record,
\* that batch has one row and its loop has been told to stop (nothing that is
\* still to come can tell it to), so async_fetch returns and main goes on.
C3_OneErrorAdvances ==
    \A b \in 1..Len(fetched) :
        (/\ Cardinality(BatchOf(b)) = 2
         /\ \E m, n \in BatchOf(b) : /\ requests[m].status = "error"
                                     /\ requests[n].status = "saved")
        => /\ Len(rows) = Cardinality(Saved)
           /\ ~(pc = "ioloop" /\ Len(fetched) = b /\ ~stop)

LastNext == IF fetched = <<>> THEN MainUrl ELSE fetched[Len(fetched)].next

C4_WalkInv ==
    /\ \A i \in 1..Len(fetched) :
          /\ fetched[i].url = IF i = 1 THEN MainUrl ELSE fetched[i - 1].next
          /\ fetched[i].url # NoUrl
          /\ i < Len(fetched) => fetched[i].next # NoUrl
    /\ pc = "fetch_summary_page" => page_url = LastNext
    /\ pc \in {"async_fetch", "ioloop", "print_next_link"} => next_link = LastNext
    /\ pc = "done" => (fetched # <<>> /\ LastNext = NoUrl)

C4_WalkStep ==
    /\ (pc = "print_next_link" /\ next_link # NoUrl)
          => (pc' = "fetch_summary_page" /\ page_url' = next_link)
    /\ (pc = "print_next_link" /\ next_link = NoUrl) => pc' = "done"
    /\ Len(fetched') > Len(fetched)
          => (pc = "fetch_summary_page" /\ Len(fetched') = Len(fetched) + 1)
    /\ pc = "done" => fetched' = fetched

\* C4: listing walk and termination. The listing fetches form one chain from
\* the seed url, each url being the next link the previous listing gave, one
\* fetch per step; after a listing with a next link main fetches that link,
\* after a listing without one it terminates, and it terminates in no other
\* way and fetches nothing afterwards.
C4_ListingWalk == []C4_WalkInv /\ [][C4_WalkStep]_vars

C4_Witness == pc = "done" /\ Len(fetched) = 2 /\ fetched[2].url = base_url(NextHref(2))

\* C7: a listing entry whose url has no numeric id is skipped, and the run
\* goes on: a listing whose entries all have their link and date nodes does
\* not end the run, whatever the hrefs.
C7_BadUrlSkipped ==
    (/\ html.kind = "listing"
     /\ \A i \in 1..Len(html.entries) : html.entries[i].link # NoUrl /\ html.entries[i].date)
    => pc # "aborted"

C8_Inv ==
    /\ Len(rows) = Cardinality(Saved)
    /\ \A n \in Saved : \E i \in 1..Len(rows) : rows[i].page_num = requests[n].page_num

C8_Step ==
    rows' # rows =>
        /\ pc = "ioloop" /\ pc' = "ioloop"
        /\ \E n \in Pending :
              /\ requests'[n].status = "saved"
              /\ \A m \in 1..Len(requests) : m # n => requests'[m] = requests[m]
              /\ Len(rows') = Len(rows) + 1
              /\ rows'[Len(rows')].page_num = requests[n].page_num
              /\ \A i \in 1..Len(rows) : rows'[i] = rows[i]

\* C8: a record is persisted at most once for a page item, and in the callback
\* of its own fetch: there is one row per request that ended in a save, and the
\* table changes only by the running loop calling the callback of one
\* outstanding request, which appends the one row of that request.
C8_OncePerRef == []C8_Inv /\ [][C8_Step]_vars

C8_Witness ==
    /\ pc = "ioloop"
    /\ Cardinality(Saved) = 2
    /\ Pending # {}

(***************************************************************************)
(* Properties of parse_detail_page (SpecParse).                            *)
(***************************************************************************)
RecordSaved == pc = "returned" /\ ret = "save" /\ ~raised

\* the fragments whose payload decodes, in document order
Decoded(frags) == SelectSeq(frags, LAMBDA f : f.json = "ok")

\* the length of the longest prefix of fs whose authors are the author of fs[1]
PrefixLen(fs) ==
    IF fs = <<>> THEN 0
    ELSE CHOOSE k \in 1..Len(fs) :
            /\ \A i \in 1..k : user_id(fs[i]) = user_id(fs[1])
            /\ k < Len(fs) => user_id(fs[k + 1]) # user_id(fs[1])

FirstHasAuthor(fs) == fs # <<>> /\ user_id(fs[1]) # None

\* C5: fusion rule. For a page that is persisted and whose first fragment
\* names its author, the content is the texts, joined by a blank line, of
\* exactly the longest prefix of fragments by that author: fusion stops at the
\* first other author, and later fragments of the first author are left out.
C5_FusionPrefix ==
    (RecordSaved /\ FirstHasAuthor(Decoded(html.frags)))
    => LET fs == Decoded(html.frags) IN
       /\ Len(rows) = 1
       /\ rows[1].content = Join([i \in 1..PrefixLen(fs) |-> fs[i].text])

C5_Witness ==
    /\ RecordSaved
    /\ Len(html.frags) = 4
    /\ [i \in 1..4 |-> user_id(html.frags[i])] = <<"A", "A", "B", "A">>
    /\ html.frags[1].text = "x" /\ html.frags[2].text = "y" /\ html.frags[4].text = "y"
    /\ rows[1].content = "x\n\ny"

\* C6: created_at of a persisted record is the date of the last fragment of
\* the fused prefix, also when a fragment of another author follows it.
C6_CreatedAtLastFused ==
    (RecordSaved /\ FirstHasAuthor(Decoded(html.frags)))
    => LET fs == Decoded(html.frags) IN
       rows[1].created_at = fs[PrefixLen(fs)].date

(***************************************************************************)
(* Properties of parse_summary_page (SpecListing).                         *)
(***************************************************************************)
ValidListing(doc) ==
    \A i \in 1..Len(doc.entries) :
        /\ doc.entries[i].link # NoUrl
        /\ doc.entries[i].date
        /\ \E j \in 1..(Len(doc.entries[i].link) - 1) :
              doc.entries[i].link[j] = "p" /\ doc.entries[i].link[j + 1] \in Digits

\* C9: for a valid listing document with N entries parse_summary_page returns
\* N page items, the i-th for the url of the i-th entry, and a next link that
\* is set exactly when the document has an a.next node.
C9_ListingExtract ==
    (pc = "returned" /\ html.kind = "listing" /\ ValidListing(html))
    => /\ ~raised
       /\ Len(ret.link_items) = Len(html.entries)
       /\ \A i \in 1..Len(html.entries) :
             ret.link_items[i].url = <<Base>> \o html.entries[i].link
       /\ (ret.next_link # NoUrl) <=> (html.next # NoUrl)

C9_Witness ==
    /\ pc = "returned" /\ html.kind = "listing" /\ ValidListing(html)
    /\ Len(html.entries) = 3
    /\ html.entries[1].link # html.entries[3].link
    /\ html.next # NoUrl
    /\ Len(ret.link_items) = 3

(***************************************************************************)
(* Properties of init_sqlite (SpecSchema).                                 *)
(***************************************************************************)
\* C10: init_sqlite is idempotent. A call made when the table exists lets no
\* exception reach its caller, leaves exactly one page_items table, and leaves
\* the rows as they were.
C10_Idempotent ==
    [][(pc = "schema" /\ tables >= 1 /\ ret' = "init_sqlite")
          => (~raised' /\ tables' = 1 /\ rows' = rows)]_vars

C10_Witness ==
    /\ pc = "schema"
    /\ ret = "init_sqlite"
    /\ tables = 1
    /\ Len(rows) >= 2

(***************************************************************************)
(* Failure isolation, empty batches, fatal listing failures, the stop.     *)
(***************************************************************************)
\* the ways the callback of a detail fetch ends without a record
Failures == {"error", "raised", "no_html", "no_core"}

\* the callbacks of a batch do not touch one another: a step that ends one
\* detail fetch leaves every other fetch as it was (outstanding ones stay
\* outstanding in the running loop), keeps every row already stored, and
\* stores nothing when it ends in a failure
C11_Step ==
    \A n \in 1..Len(requests) :
       (requests[n].status = "pending" /\ requests'[n].status # "pending") =>
          /\ Len(requests') = Len(requests)
          /\ \A m \in 1..Len(requests) \ {n} : requests'[m] = requests[m]
          /\ Len(rows') >= Len(rows)
          /\ SubSeq(rows', 1, Len(rows)) = rows
          /\ (requests'[n].status \in Failures => rows' = rows)
          /\ pc' = "ioloop"

\* every fetch that completed, was parsed and stored has its row, whatever
\* became of the other fetches
C11_Inv ==
    \A n \in Saved : \E i \in 1..Len(rows) : rows[i].page_num = requests[n].page_num

\* C11: failure isolation inside a batch. A fetch, parse or persist failure of
\* one detail page neither cancels nor suppresses its siblings: the other
\* fetches of the batch stay as they were, the records already stored stay
\* stored, and every page whose fetch completed and whose parse and insert
\* succeeded has its record, whatever the position of the failing page.
C11_FailureIsolation == []C11_Inv /\ [][C11_Step]_vars

\* a batch of three whose first and last pages failed and whose middle page
\* is stored
C11_Witness ==
    \E m, n, k \in 1..Len(requests) :
       /\ requests[m].batch = requests[n].batch /\ requests[n].batch = requests[k].batch
       /\ requests[m].idx < requests[n].idx /\ requests[n].idx < requests[k].idx
       /\ requests[m].status \in Failures
       /\ requests[n].status = "saved"
       /\ requests[k].status \in Failures
       /\ requests[k].exit_flag

\* the loop is only ever entered for a list with an item in it
C12_Inv == pc = "ioloop" => detail_items # <<>>

\* with an empty list the one step of async_fetch is its return: no fetch is
\* issued, the loop is not started, and main is at its next-link decision
C12_Step ==
    (pc = "async_fetch" /\ detail_items = <<>>) =>
        /\ pc' = "print_next_link"
        /\ requests' = requests
        /\ stop' = stop
        /\ rows' = rows
        /\ next_link' = next_link

\* C12: empty batch. When a listing yields no detail items, async_fetch
\* issues no fetch and does not wait on the event loop: it returns at once
\* and main goes straight to the next-page decision, so an empty listing
\* cannot stall the run.
C12_EmptyBatch == []C12_Inv /\ [][C12_Step]_vars

\* a run that walked two listings without a detail item and ended normally
C12_Witness ==
    /\ pc = "done"
    /\ Len(fetched) = 2
    /\ detail_items = <<>>
    /\ requests = <<>>

\* the listing response r is a failed fetch, has a body that cannot be decoded
\* (no charset to decode it with, or bytes its charset does not decode and no
\* lossy retry), or holds an entry without its title link or its date node
ListingFailed(r) ==
    \/ r.error
    \/ r.charset = None
    \/ (~r.strict /\ r.charset # "gbk")
    \/ /\ r.html.kind = "listing"
       /\ \E i \in 1..Len(r.html.entries) :
             r.html.entries[i].link = NoUrl \/ ~r.html.entries[i].date

\* main is past a listing fetch only when that listing was fetched, decoded
\* and extracted
C13_Inv ==
    (pc # "aborted" /\ summary_response # <<>>) => ~ListingFailed(summary_response[1])

\* a failed listing fetch goes to the abort and nowhere else, with no listing
\* counted and no detail fetch issued; nothing follows an abort
C13_Step ==
    /\ (pc = "fetch_summary_page" /\ pc' # pc /\ ListingFailed(summary_response'[1])) =>
          /\ pc' = "aborted"
          /\ fetched' = fetched
          /\ requests' = requests
          /\ rows' = rows
    /\ pc = "aborted" => UNCHANGED vars

\* C13: a listing-page failure is fatal. If the fetch of a listing page fails,
\* its body cannot be decoded, or one of its entries lacks the title link or
\* the date node, the run aborts: no further listing page is fetched, no
\* detail fetch of that listing is issued, and the run never terminates
\* normally.
C13_ListingFatal == []C13_Inv /\ [][C13_Step]_vars

\* the second listing page was served with an entry that has no date node,
\* after a first page whose detail fetch was stored
C13_Witness ==
    /\ pc = "aborted"
    /\ Len(fetched) = 1
    /\ Saved # {}
    /\ summary_response # <<>>
    /\ ~summary_response[1].error
    /\ summary_response[1].html.kind = "listing"
    /\ \E i \in 1..Len(summary_response[1].html.entries) :
          /\ ~summary_response[1].html.entries[i].date
          /\ summary_response[1].html.entries[i].link # NoUrl

\* the stop is set only in the running loop, and then the last item of the
\* list in flight has had its callback called on a response without error;
\* the callback of the last item of a list, and no other, carries exit_flag
C17_Inv ==
    /\ stop =>
          /\ pc = "ioloop"
          /\ \E n \in BatchOf(Len(fetched)) :
                /\ requests[n].idx = Len(detail_items)
                /\ requests[n].exit_flag
                /\ requests[n].status \notin {"pending", "fetch_error", "error"}
    /\ \A n \in 1..Len(requests) :
          requests[n].exit_flag <=>
             (\A m \in BatchOf(requests[n].batch) : requests[m].idx <= requests[n].idx)

\* the step that sets the stop is the callback of the last item of the list in
\* flight, called on a response without error
C17_Step ==
    (~stop /\ stop') =>
        \E n \in Pending :
           /\ requests[n].batch = Len(fetched)
           /\ requests[n].idx = Len(detail_items)
           /\ requests[n].exit_flag
           /\ requests'[n].status \notin {"pending", "error"}
           /\ \A m \in 1..Len(requests) \ {n} : requests'[m] = requests[m]

\* C17: within a batch the stop of the event loop is requested only by the
\* callback of the positionally last item of the dispatched list, and only
\* when the response of that item carries no error; no other callback and no
\* error response requests it.
C17_StopByLast == []C17_Inv /\ [][C17_Step]_vars

\* the stop requested by the last of three items while the first two are
\* still outstanding
C17_Witness ==
    /\ stop
    /\ Len(detail_items) = 3
    /\ \E n \in BatchOf(Len(fetched)) :
          /\ requests[n].idx = 3
          /\ requests[n].status = "saved"
          /\ \A m \in BatchOf(Len(fetched)) \ {n} : requests[m].status = "pending"

(***************************************************************************)
(* Properties of parse_detail_page called after an earlier page was stored *)
(* (SpecParseAgain).                                                       *)
(***************************************************************************)
\* C14: a detail page without its core container, or without its title node,
\* is an extraction failure: the parser ends without storing a record for the
\* page, and the rows stored before are what they were.
C14_NoCoreNoTitle ==
    (pc = "returned" /\ (~html.core \/ html.title = None)) =>
        /\ ret \in {"return", "raise"}
        /\ rows = <<PriorRow>>

\* a page with its core and two decodable posts of one author, but no title
C14_Witness ==
    /\ pc = "returned"
    /\ html.core
    /\ html.title = None
    /\ Len(html.frags) = 2
    /\ \A i \in 1..2 : html.frags[i].json = "ok" /\ html.frags[i].id = "A"
    /\ ret = "raise"
    /\ rows = <<PriorRow>>

(***************************************************************************)
(* Properties of parse_detail_page on its own (SpecParse): fragments whose *)
(* payload does not decode.                                                *)
(***************************************************************************)
\* the fragments of frags without those whose payload json.loads rejects
WithoutMalformed(frags) == SelectSeq(frags, LAMBDA f : f.json # "malformed")

\* C15: a fragment whose payload fails to decode is skipped, and only that
\* fragment: it adds nothing to the content, to created_at or to the choice of
\* the author, and what the parser does with the page (return, raise, or the
\* record it stores) is what it does with the same page without its
\* undecodable fragments.
C15_MalformedSkipped ==
    (pc = "returned" /\ html.core /\ WithoutMalformed(html.frags) # html.frags)
    => LET q == parse_detail_page(DetailDoc(TRUE, WithoutMalformed(html.frags), html.title))
       IN  /\ ret = q.kind
           /\ RecordSaved =>
                 rows = <<[page_num |-> 1, title |-> q.item.title,
                           content |-> q.item.content,
                           created_at |-> q.item.created_at]>>

\* undecodable fragments before the first post and between two posts of its
\* author: both posts are fused
C15_Witness ==
    /\ RecordSaved
    /\ Len(html.frags) = 4
    /\ html.frags[1] = Malformed /\ html.frags[3] = Malformed
    /\ html.frags[2] = Frag([id |-> "A", name |-> "A"], "d1", "x")
    /\ html.frags[4] = Frag([id |-> "A", name |-> "A"], "d2", "y")
    /\ rows[1].content = "x\n\ny"
    /\ rows[1].created_at = "d2"

\* C18: a detail page with its core container and its title but without a
\* decodable post fragment (no fragment at all, or only fragments whose payload
\* is malformed) is still stored: save_to_sqlite is reached, and the row it
\* inserts has the empty string as content and None as created_at.
C18_EmptyFusionSaved ==
    (/\ pc = "returned"
     /\ html.core
     /\ html.title # None
     /\ \A i \in 1..Len(html.frags) : html.frags[i].json = "malformed")
    => /\ ret = "save"
       /\ ~raised => rows = <<[page_num |-> 1, title |-> html.title,
                               content |-> "", created_at |-> None]>>

\* a page whose two fragments are both malformed, stored
C18_Witness ==
    /\ RecordSaved
    /\ html.frags = <<Malformed, Malformed>>
    /\ Len(rows) = 1
    /\ rows[1].content = ""
    /\ rows[1].created_at = None

(***************************************************************************)
(* Properties of database_sqlite.Connection (SpecConn).                    *)
(***************************************************************************)
\* every statement ran on a connection that had been opened or used within
\* max_idle_time, and _last_use_time is the time of the last statement
C16_Inv ==
    /\ \A i \in 1..Len(statements) : statements[i].idle <= conn.max_idle_time
    /\ statements # <<>> => conn._last_use_time = statements[Len(statements)].at

\* a step that runs a statement runs it now, on an open connection, and leaves
\* now as _last_use_time; when _db was None or _last_use_time was more than
\* max_idle_time ago, the statement runs on a connection opened in that step
C16_Step ==
    Len(statements') > Len(statements) =>
        LET st == statements'[Len(statements')] IN
        /\ st.at = now
        /\ conn'._db # <<>>
        /\ conn'._last_use_time = now
        /\ (conn._db = <<>> \/ now - conn._last_use_time > conn.max_idle_time) =>
              (st.opened = now /\ st.idle = 0)

\* C16: store connection liveness. Before every use of the connection (every
\* cursor taken for execute or query), the adapter reconnects first when the
\* connection is closed or more than max_idle_time has passed since the last
\* use; after every use the last-use timestamp is the time of that use; so no
\* statement runs on a connection that was idle for longer than the threshold.
C16_ConnectionLiveness == []C16_Inv /\ [][C16_Step]_vars

\* a second statement, more than max_idle_time after the first, on a
\* connection opened for it
C16_Witness ==
    /\ Len(statements) = 2
    /\ statements[1].opened = 0
    /\ statements[2].at - statements[1].at > conn.max_idle_time
    /\ statements[2].opened = statements[2].at
    /\ statements[2].idle = 0

====
